---------------------------- MODULE Spec2Model ----------------------------
(***************************************************************************)
(* Monotonic chunkwise attention (MoChA) of neural_sp:                     *)
(*   src/neural_sp/models/modules/mocha.py                                 *)
(*                                                                         *)
(* One batch element is modelled (the code treats batch elements           *)
(* independently: every tensor operation is element-wise over the batch    *)
(* axis and the latency-control loop handles one b at a time).             *)
(*                                                                         *)
(* Tensors are functions over 0-based index ranges, as in the code:        *)
(*   alpha[h][i][j]   h: head, i: query position, j: key position.         *)
(* Real numbers are exact rationals <<numerator, denominator>>.            *)
(* Energies are integers in units of ln 3, so that sigmoid and exp are     *)
(* exact rationals: sigmoid(k ln 3) = 3^k / (3^k + 1), exp(k ln 3) = 3^k.  *)
(* An optional value is a sequence: <<>> is Python's None, <<x>> is x.     *)
(***************************************************************************)
EXTENDS Integers, Sequences, FiniteSets, TLC

VARIABLES cfg,      \* constructor arguments of the MoChA instance
          mono,     \* MonotonicEnergy: [key, mask], the scorer's cache
          chunk,    \* ChunkEnergy: <<>> when absent, else <<[key, mask]>>
          call,     \* arguments of the forward call made last (<<>>: none yet)
          ret,      \* what that call returned or raised
          sess,     \* the caller's decoding session: [key, value, aw_prev]
          saved,    \* a result the caller kept for comparison (<<>>: none)
          pc        \* the caller's position

vars == <<cfg, mono, chunk, call, ret, sess, saved, pc>>

-----------------------------------------------------------------------------
(* Bounds of the model *)

MaxKlen == 5
MaxEpsWait == 2

-----------------------------------------------------------------------------
(* Optional values *)

None == <<>>
Some(x) == <<x>>
Get(o) == o[1]

\* A tensor given by an expression, evaluated once (TLC otherwise evaluates
\* the expression again at every read of an entry).
Tensor(t) == IF t = t THEN t ELSE t

-----------------------------------------------------------------------------
(* Exact rational arithmetic *)

Abs(x) == IF x < 0 THEN -x ELSE x

RECURSIVE GCD(_, _)
GCD(a, b) == IF b = 0 THEN a ELSE GCD(b, a % b)

Norm(n, d) ==
    IF d = 1 THEN <<n, 1>>
    ELSE LET g == GCD(Abs(n), d) IN <<n \div g, d \div g>>

Zero == <<0, 1>>
One == <<1, 1>>
Half == <<1, 2>>

\* Sums go over the least common denominator, which keeps the integers small
RAdd(a, b) ==
    IF a[1] = 0 THEN b ELSE IF b[1] = 0 THEN a
    ELSE LET g == GCD(a[2], b[2])
         IN  Norm(a[1] * (b[2] \div g) + b[1] * (a[2] \div g),
                  (a[2] \div g) * b[2])
RSub(a, b) == RAdd(a, <<-b[1], b[2]>>)
RMul(a, b) ==
    IF a[1] = 0 \/ b[1] = 0 THEN Zero
    ELSE IF a[2] = 1 /\ b[2] = 1 THEN <<a[1] * b[1], 1>>
    ELSE
    LET g1 == GCD(Abs(a[1]), b[2])
        g2 == GCD(Abs(b[1]), a[2])
    IN  Norm((a[1] \div g1) * (b[1] \div g2), (a[2] \div g2) * (b[2] \div g1))
RInv(a) == IF a[1] > 0 THEN <<a[2], a[1]>> ELSE <<-a[2], -a[1]>>
RDiv(a, b) == RMul(a, RInv(b))
RLe(a, b) == a[1] * b[2] <= b[1] * a[2]
RClamp(x, lo, hi) == IF RLe(x, lo) THEN lo ELSE IF RLe(hi, x) THEN hi ELSE x

Min(S) == CHOOSE x \in S : \A y \in S : x <= y
Max(S) == CHOOSE x \in S : \A y \in S : y <= x

RECURSIVE Pow3(_)
Pow3(k) == IF k = 0 THEN 1 ELSE 3 * Pow3(k - 1)

-----------------------------------------------------------------------------
(* Numeric primitives *)

NEG_INF == -1000000

\* torch.sigmoid on float32: 0 once exp underflows (NEG_INF and below -95
\* units), 1.0 once 1 + exp(-x) rounds to 1 (from 16 units on).
Sigmoid(e) ==
    IF e <= -95 THEN Zero
    ELSE IF e >= 16 THEN One
    ELSE IF e >= 0 THEN <<Pow3(e), Pow3(e) + 1>>
    ELSE <<1, Pow3(-e) + 1>>

RECURSIVE SumTo(_, _)
SumTo(x, j) == IF j < 0 THEN Zero ELSE RAdd(SumTo(x, j - 1), x[j])

RECURSIVE ProdTo(_, _)
ProdTo(x, j) == IF j < 0 THEN One ELSE RMul(ProdTo(x, j - 1), x[j])

\* torch.cumsum(x, dim=-1) and torch.cumprod(x, dim=-1) of one row
cumsum(x) == LET v == Tensor(x) IN Tensor([j \in DOMAIN v |-> SumTo(v, j)])
cumprod(x) == LET v == Tensor(x) IN Tensor([j \in DOMAIN v |-> ProdTo(v, j)])

\* torch.cat([first, x[:-1]], dim=-1) of one row
ShiftRight(first, x) ==
    Tensor([j \in DOMAIN x |-> IF j = 0 THEN first ELSE x[j - 1]])

exclusive_cumsum(x) == cumsum(ShiftRight(Zero, x))

exclusive_cumprod(x) == cumprod(ShiftRight(One, x))

\* A faulty cumulative sum, for comparison: exp(cumsum(log(c))), inclusive
ExpCumsumLog(c) ==
    LET v == Tensor(c) IN Tensor([j \in DOMAIN v |-> ProdTo(v, j)])

\* exp(exclusive_cumsum(log(c))) of a row c of positive numbers: a sum of
\* logarithms is the logarithm of the product, taken over what
\* exclusive_cumsum adds up, the entries before j.
ExpExclusiveCumsumLog(c) ==
    LET v == Tensor(c) IN Tensor([j \in DOMAIN v |-> ProdTo(v, j - 1)])

safe_cumprod(x, eps) ==
    ExpExclusiveCumsumLog([j \in DOMAIN x |-> RClamp(x[j], eps, One)])

-----------------------------------------------------------------------------
(* Tensors of one batch element *)

Rows(t) == Cardinality(DOMAIN t)
RowSum(x) == SumTo(x, Rows(x) - 1)
NonzeroCols(x) == {j \in DOMAIN x : x[j] # Zero}

\* key.size(1), query.size(1)
KLenOf(key) == Rows(key)
QLenOf(query) == Rows(query)

-----------------------------------------------------------------------------
(* MonotonicEnergy and ChunkEnergy *)

\* self.key = None; self.mask = None
EmptyCache == [key |-> None, mask |-> None]

\* w_key(key).view(bs, -1, n_heads, d_k).transpose(2, 1): per head, the slice
\* of the projection of every key frame.  The learned projection is kept
\* symbolic: the slice for head h of the frame with feature f is <<h, f>>.
ProjectKey(key, n_heads) ==
    [h \in 0..(n_heads - 1) |-> [j \in DOMAIN key |-> <<h, key[j]>>]]

\* mask.unsqueeze(1).repeat([1, n_heads, 1, 1])
ExpandMask(mask, n_heads) ==
    IF mask = None THEN None
    ELSE Some([h \in 0..(n_heads - 1) |-> Get(mask)])

\* A faulty pre-computation, for comparison: done only while the scorer
\* holds no key, whatever the cache flag
ScorerCacheOnce(self, key, mask, cache, n_heads) ==
    IF self.key = None
    THEN [key |-> Some(ProjectKey(key, n_heads)),
          mask |-> ExpandMask(mask, n_heads)]
    ELSE self

\* A faulty pre-computation, for comparison: done at every call
ScorerCacheAlways(self, key, mask, cache, n_heads) ==
    [key |-> Some(ProjectKey(key, n_heads)),
     mask |-> ExpandMask(mask, n_heads)]

\* The pre-computation of the encoder-side features: done when the scorer
\* holds no key or the call does not ask for the cache.
ScorerCache(self, key, mask, cache, n_heads) ==
    IF self.key = None \/ ~cache
    THEN [key |-> Some(ProjectKey(key, n_heads)),
          mask |-> ExpandMask(mask, n_heads)]
    ELSE self

\* The score of a projected query against the projected key held by the
\* scorer.  The learned query projection and the dot product (or the additive
\* network) are kept symbolic: resp[h] maps the feature of a key frame to
\* the score of this query against it, for head h.
ScoreMatrix(self, resp, offset) ==
    LET k == Get(self.key)
    IN  Tensor([h \in DOMAIN k |->
                 [i \in DOMAIN resp |->
                   [j \in DOMAIN k[h] |-> resp[i][h][k[h][j][2]] + offset]]])

\* e.masked_fill_(self.mask == 0, NEG_INF): the stored mask is broadcast over
\* the query axis when it has one row.
MaskedFill(e, m) ==
    Tensor([h \in DOMAIN e |->
      [i \in DOMAIN e[h] |->
        [j \in DOMAIN e[h][i] |->
          LET mi == IF Rows(m[h]) = 1 THEN 0 ELSE i
          IN  IF m[h][mi][j] = 0 THEN NEG_INF ELSE e[h][i][j]]]])

\* Whether masked_fill_ can broadcast the stored mask to the energies.
MaskFits(e, m) ==
    \A h \in DOMAIN e :
        /\ Rows(m[h]) \in {1, Rows(e[h])}
        /\ \A i \in DOMAIN m[h] : DOMAIN m[h][i] = DOMAIN e[h][0]

\* forward(key, query, mask, cache) of either scorer: the scorer after the
\* call and the energies it returns, or the error it raises.
ScorerForward(self, key, resp, mask, cache, n_heads, offset) ==
    LET after == ScorerCache(self, key, mask, cache, n_heads)
        \* assert self.mask.size() == (bs, self.n_heads, qlen, klen)
        stored == (self.key = None \/ ~cache) /\ mask # None
        asserted == stored =>
                        /\ Rows(Get(mask)) = Rows(resp)
                        /\ \A i \in DOMAIN Get(mask) :
                               DOMAIN Get(mask)[i] = DOMAIN key
        raw == ScoreMatrix(after, resp, offset)
        fits == after.mask = None \/ MaskFits(raw, Get(after.mask))
        e == IF after.mask = None THEN raw
             ELSE MaskedFill(raw, Get(after.mask))
        sized == \A h \in DOMAIN raw : \A i \in DOMAIN raw[h] :
                     DOMAIN raw[h][i] = DOMAIN key
    IN  [self |-> after,
         status |-> IF ~asserted THEN "AssertionError"
                    ELSE IF ~fits THEN "RuntimeError"
                    ELSE IF ~sized THEN "AssertionError"
                    ELSE "ok",
         e |-> IF asserted /\ fits /\ sized THEN Some(e) ELSE None]

-----------------------------------------------------------------------------
(* MoChA.forward: hard mode *)

\* aw_prev = [1, 0, 0 ... 0] for every head
InitialAwPrev(n_heads, klen) ==
    [h \in 0..(n_heads - 1) |->
      [i \in {0} |-> [j \in 0..(klen - 1) |-> IF j = 0 THEN One ELSE Zero]]]

\* (torch.sigmoid(e_mono) >= 0.5).float()
Choose(e) == IF RLe(Half, Sigmoid(e)) THEN One ELSE Zero

\* A faulty suppression, for comparison: the exclusive cumulative sum, which
\* is still 0 at the previous boundary
HardPChooseExclusive(e_row, aw_row) ==
    LET cs == exclusive_cumsum(aw_row)
    IN  Tensor([j \in DOMAIN e_row |-> RMul(Choose(e_row[j]), cs[j])])

\* p_choose_i *= torch.cumsum(aw_prev[:, :, 0:1], dim=-1)
HardPChoose(e_row, aw_row) ==
    LET cs == cumsum(aw_row)
    IN  Tensor([j \in DOMAIN e_row |-> RMul(Choose(e_row[j]), cs[j])])

\* A faulty selection, for comparison: the product taken inclusively, so that
\* a choose indicator cancels itself.
HardSelectInclusive(p) ==
    LET cp == cumprod([j \in DOMAIN p |-> RSub(One, p[j])])
    IN  Tensor([j \in DOMAIN p |-> RMul(p[j], cp[j])])

\* alpha = p_choose_i * exclusive_cumprod(1 - p_choose_i)
HardSelect(p) ==
    LET ecp == exclusive_cumprod([j \in DOMAIN p |-> RSub(One, p[j])])
    IN  Tensor([j \in DOMAIN p |-> RMul(p[j], ecp[j])])

HardAlpha(e_mono, aw_prev) ==
    Tensor([h \in DOMAIN e_mono |->
              HardSelect(HardPChoose(e_mono[h][0], aw_prev[h][0]))])

\* vertical_latency = False
vertical_latency == FALSE

OneAt(row, j) == [row EXCEPT ![j] = One]
ZeroRow(row) == [j \in DOMAIN row |-> Zero]

\* alpha[b].sum() over all heads
TotalSum(a) ==
    LET RECURSIVE Acc(_)
        Acc(h) == IF h < 0 THEN Zero ELSE RAdd(Acc(h - 1), RowSum(a[h]))
    IN  Acc(Rows(a) - 1)

\* alpha[b, :, 0].nonzero()[:, -1]: the key indices of the nonzero entries
AllNonzeroCols(a) == UNION {NonzeroCols(a[h]) : h \in DOMAIN a}

\* Faulty bodies of the loop over the heads, for comparison.
\* (1) the relocation sets the new boundary without clearing the row
LatencyHeadNoClear(row, leftmost, rightmost, eps_wait, first_mma_layer, boundary_threshold) ==
    IF RowSum(row) = Zero
    THEN OneAt(row, Min({rightmost, leftmost + eps_wait}))
    ELSE IF Min(NonzeroCols(row)) >= leftmost + eps_wait
         THEN OneAt(row, leftmost + eps_wait)
         ELSE row

\* (2) a head without a boundary is given leftmost + eps_wait, not capped by
\* rightmost
LatencyHeadNoCap(row, leftmost, rightmost, eps_wait, first_mma_layer, boundary_threshold) ==
    IF RowSum(row) = Zero
    THEN OneAt(row, Min({Rows(row) - 1, leftmost + eps_wait}))
    ELSE IF Min(NonzeroCols(row)) >= leftmost + eps_wait
         THEN OneAt(ZeroRow(row), leftmost + eps_wait)
         ELSE row

\* (3) a head that runs ahead is left where it is
LatencyHeadNoMove(row, leftmost, rightmost, eps_wait, first_mma_layer, boundary_threshold) ==
    IF RowSum(row) = Zero
    THEN OneAt(row, Min({rightmost, leftmost + eps_wait}))
    ELSE row

\* The body of `for h in range(self.n_heads_mono)` for one head.
LatencyHead(row, leftmost, rightmost, eps_wait, first_mma_layer, boundary_threshold) ==
    IF RowSum(row) = Zero
    THEN \* no boundary at the h-th head
         IF first_mma_layer \/ ~vertical_latency
         THEN OneAt(row, Min({rightmost, leftmost + eps_wait}))
         ELSE IF boundary_threshold < Rows(row) - 1
              THEN OneAt(row, boundary_threshold)
              ELSE row
    ELSE \* surpass acceptable latency
         IF first_mma_layer \/ ~vertical_latency
         THEN IF Min(NonzeroCols(row)) >= leftmost + eps_wait
              THEN OneAt(ZeroRow(row), leftmost + eps_wait)
              ELSE row
         ELSE IF Min(NonzeroCols(row)) > boundary_threshold
              THEN OneAt(ZeroRow(row), boundary_threshold)
              ELSE row

\* A faulty loop body, for comparison: when no head has a boundary, every
\* head is given the last frame
LatencyControlForceLast(a, eps_wait, boundary_rightmost) ==
    LET klen == Rows(a[0])
        nonzero == AllNonzeroCols(a)
        first_mma_layer == boundary_rightmost = None
    IN  IF TotalSum(a) = Zero
        THEN [h \in DOMAIN a |-> OneAt(a[h], klen - 1)]
        ELSE LET leftmost == Min(nonzero)
                 rightmost == Max(nonzero)
             IN  [h \in DOMAIN a |->
                   LatencyHead(a[h], leftmost, rightmost, eps_wait,
                               first_mma_layer, klen - 1)]

\* The body of `for b in range(bs)` for the one batch element, a holding the
\* rows alpha[b, h, 0].  leftmost and rightmost are read once, before the
\* loop over the heads, and each head's row is rewritten from itself only.
LatencyControl(a, eps_wait, boundary_rightmost) ==
    LET klen == Rows(a[0])
        nonzero == AllNonzeroCols(a)
        first_mma_layer == boundary_rightmost = None
        boundary_threshold ==
            IF first_mma_layer \/ ~vertical_latency
            THEN klen - 1
            ELSE Min({klen - 1, Get(boundary_rightmost) + eps_wait})
    IN  IF TotalSum(a) = Zero
        THEN \* no boundary until the last frame for all heads
             IF vertical_latency /\ boundary_threshold < klen - 1
             THEN [h \in DOMAIN a |-> OneAt(a[h], boundary_threshold)]
             ELSE a
        ELSE LET leftmost == Min(nonzero)
                 rightmost == Max(nonzero)
             IN  [h \in DOMAIN a |->
                   LatencyHead(a[h], leftmost, rightmost, eps_wait,
                               first_mma_layer, boundary_threshold)]

\* mode == 'hard', after `assert qlen == 1`
HardMode(e_mono, aw_prev, eps_wait, boundary_rightmost) ==
    LET a == HardAlpha(e_mono, aw_prev)
        b == IF eps_wait > 0 THEN LatencyControl(a, eps_wait, boundary_rightmost)
             ELSE a
    IN  Tensor([h \in DOMAIN b |-> [i \in {0} |-> b[h]]])

-----------------------------------------------------------------------------
(* MoChA.forward: recursive and parallel mode *)

\* torch.sigmoid(add_gaussian_noise(e_mono, self.noise_std)) for one head
PChoose(e_h, noise_h) ==
    Tensor([i \in DOMAIN e_h |->
              [j \in DOMAIN e_h[i] |-> Sigmoid(e_h[i][j] + noise_h[i][j])]])

\* t[:, :, i:i + 1]: the rows i..i of a tensor, none when it has no row i
SliceRow(t, i) == IF i \in DOMAIN t THEN [z \in {0} |-> t[i]] ELSE <<>>

\* A faulty start, for comparison: q = ones(klen + 1)
RECURSIVE RecursiveQFromOne(_, _, _)
RecursiveQFromOne(shifted, aw_row, j) ==
    IF j = 0 THEN One
    ELSE RAdd(RMul(shifted[j - 1], RecursiveQFromOne(shifted, aw_row, j - 1)),
              aw_row[j - 1])

\* The loop `for j in range(klen)` over q = zeros(klen + 1), for the one row
\* that q has: q[j + 1] = shifted_1mp_choose[j] * q[j] + aw_prev[j].
RECURSIVE RecursiveQ(_, _, _)
RecursiveQ(shifted, aw_row, j) ==
    IF j = 0 THEN Zero
    ELSE RAdd(RMul(shifted[j - 1], RecursiveQ(shifted, aw_row, j - 1)), aw_row[j - 1])

\* One pass of `for i in range(qlen)` for one head: the new aw_prev.
\* shifted_1mp_choose and q have one row, so their slices i:i + 1 hold a row
\* for i = 0 only; for i >= 1 they are empty, the assignments to q store
\* nothing and p_choose[:, :, i:i + 1] * q[:, :, i:i + 1, 1:] has no rows.
RecursiveStep(p_h, aw_h, i) ==
    LET shifted == [z \in {0} |->
                      ShiftRight(One, [j \in DOMAIN p_h[i] |-> RSub(One, p_h[i][j])])]
        qs == SliceRow(shifted, i)
    IN  IF qs = <<>> \/ aw_h = <<>> THEN <<>>
        ELSE Tensor([z \in {0} |->
                [j \in DOMAIN p_h[i] |->
                   RMul(p_h[i][j], RecursiveQ(qs[0], aw_h[0], j + 1))]])

\* torch.cat(rows, dim=2): the rows of the tensors of a list, in order
RECURSIVE CatRows(_)
CatRows(list) ==
    IF list = <<>> THEN <<>>
    ELSE LET head == list[1]
             rest == CatRows(Tail(list))
             n == Rows(head)
         IN  Tensor([i \in 0..(n + Rows(rest) - 1) |->
                        IF i < n THEN head[i] ELSE rest[i - n]])

\* The list `alpha` after the passes i = 0..qlen-1, for one head
RECURSIVE RecursiveList(_, _, _)
RecursiveList(p_h, aw_h, n) ==
    IF n = 0 THEN <<>>
    ELSE LET before == RecursiveList(p_h, aw_h, n - 1)
             aw == IF n = 1 THEN aw_h ELSE before[n - 1]
         IN  Append(before, RecursiveStep(p_h, aw, n - 1))

\* mode == 'recursive'
RecursiveMode(e_mono, noise, aw_prev) ==
    [h \in DOMAIN e_mono |->
       LET list == RecursiveList(PChoose(e_mono[h], noise[h]), aw_prev[h],
                                 Rows(e_mono[h]))
       IN  IF Len(list) > 1 THEN CatRows(list) ELSE list[Len(list)]]

\* One pass of the parallel loop for one head: the new aw_prev (one row)
ParallelStep(p_row, cp_row, aw_row, eps, no_denom, cut) ==
    LET denom == Tensor([j \in DOMAIN cp_row |->
                    IF no_denom THEN One ELSE RClamp(cp_row[j], eps, One)])
        cs == cumsum([j \in DOMAIN aw_row |-> RDiv(aw_row[j], denom[j])])
    IN  Tensor([j \in DOMAIN p_row |->
           IF cut # None /\ j >= Get(cut) THEN Zero
           ELSE RMul(RMul(p_row[j], cp_row[j]), cs[j])])

RECURSIVE ParallelRows(_, _, _, _, _, _, _)
ParallelRows(p_h, cp_h, aw_row, eps, no_denom, cut, n) ==
    IF n = 0 THEN <<>>
    ELSE LET before == ParallelRows(p_h, cp_h, aw_row, eps, no_denom, cut, n - 1)
             aw == IF n = 1 THEN aw_row ELSE before[n - 1]
         IN  Append(before, ParallelStep(p_h[n - 1], cp_h[n - 1], aw, eps, no_denom, cut))

\* mode == 'parallel' (head dropout is off: dropout_head = 0).  cut is the
\* first key index that DeCoT zeroes, trigger_point + lookahead + 1, or None.
ParallelMode(e_mono, noise, aw_prev, eps, no_denom, cut) ==
    [h \in DOMAIN e_mono |->
       LET p_h == PChoose(e_mono[h], noise[h])
           cp_h == Tensor([i \in DOMAIN p_h |->
                      safe_cumprod([j \in DOMAIN p_h[i] |-> RSub(One, p_h[i][j])], eps)])
           rows == ParallelRows(p_h, cp_h, aw_prev[h][0], eps, no_denom, cut,
                                Rows(p_h))
       IN  Tensor([i \in DOMAIN p_h |-> rows[i + 1]])]

-----------------------------------------------------------------------------
(* Chunkwise attention *)

\* A faulty padding, for comparison: pad=[forward, back]
MovingSumSwapped(x, back, forward) ==
    LET klen == Rows(x)
        x_padded == Tensor([t \in 0..(forward + klen + back - 1) |->
                       IF t < forward \/ t >= forward + klen THEN Zero
                       ELSE x[t - forward]])
        RECURSIVE Conv(_, _)
        Conv(j, t) == IF t < 0 THEN Zero ELSE RAdd(Conv(j, t - 1), x_padded[j + t])
    IN  Tensor([j \in 0..(klen - 1) |-> Conv(j, back + forward)])

\* F.pad(x, pad=[back, forward]) then F.conv1d with a kernel of
\* back + forward + 1 ones, for one row
moving_sum(x, back, forward) ==
    LET klen == Rows(x)
        x_padded == Tensor([t \in 0..(back + klen + forward - 1) |->
                       IF t < back \/ t >= back + klen THEN Zero ELSE x[t - back]])
        RECURSIVE Conv(_, _)
        Conv(j, t) == IF t < 0 THEN Zero ELSE RAdd(Conv(j, t - 1), x_padded[j + t])
    IN  Tensor([j \in 0..(klen - 1) |-> Conv(j, back + forward)])

\* torch.clamp(torch.exp(d), min=1e-5) for a shifted logit d <= 0, in units
\* of ln 3: 3^-10 is above 1e-5 and 3^-11 is below it
ClampedExp(d) == IF d <= -11 THEN <<1, 100000>> ELSE <<1, Pow3(-d)>>

\* e -= torch.max(e, dim=-1, keepdim=True)[0]; clamp(exp(e), min=1e-5)
SoftmaxExp(e_row) ==
    LET top == Max({e_row[j] : j \in DOMAIN e_row})
    IN  Tensor([j \in DOMAIN e_row |-> ClampedExp(e_row[j] - top)])

\* A faulty aggregation, for comparison: the moving sum of alpha over the
\* denominators looks back, as the denominators do, in place of forward
ChunkRowBackward(alpha_row, e_row, chunk_size, sharpening_factor) ==
    LET klen == Rows(e_row)
        softmax_exp == SoftmaxExp(e_row)
        softmax_denominators ==
            IF chunk_size = -1 THEN cumsum(softmax_exp)
            ELSE moving_sum(softmax_exp, chunk_size - 1, 0)
        inner == Tensor([j \in DOMAIN e_row |->
                    RDiv(RMul(alpha_row[j], sharpening_factor), softmax_denominators[j])])
        summed == IF chunk_size = -1 THEN moving_sum(inner, klen - 1, 0)
                  ELSE moving_sum(inner, chunk_size - 1, 0)
    IN  Tensor([j \in DOMAIN e_row |-> RMul(softmax_exp[j], summed[j])])

\* beta for one row of alpha and one row of e
ChunkRow(alpha_row, e_row, chunk_size, sharpening_factor) ==
    LET klen == Rows(e_row)
        softmax_exp == SoftmaxExp(e_row)
        softmax_denominators ==
            IF chunk_size = -1 THEN cumsum(softmax_exp)
            ELSE moving_sum(softmax_exp, chunk_size - 1, 0)
        inner == Tensor([j \in DOMAIN e_row |->
                    RDiv(RMul(alpha_row[j], sharpening_factor), softmax_denominators[j])])
        summed == IF chunk_size = -1 THEN moving_sum(inner, 0, klen - 1)
                  ELSE moving_sum(inner, 0, chunk_size - 1)
    IN  Tensor([j \in DOMAIN e_row |-> RMul(softmax_exp[j], summed[j])])

\* A faulty window, for comparison: one frame short for a finite chunk size
EfficientChunkwiseShort(alpha, e, mask, chunk_size, n_heads, sharpening_factor) ==
    [hh \in 0..(Rows(alpha) * n_heads - 1) |->
       [i \in DOMAIN e[0] |->
          ChunkRow(alpha[hh \div n_heads][i], e[hh % n_heads][i],
                   IF chunk_size > 1 THEN chunk_size - 1 ELSE chunk_size,
                   sharpening_factor)]]

\* alpha `[H_mono, qlen, klen]`, e `[H_chunk, qlen, klen]`; the result is
\* beta.view(bs, -1, qlen, klen), head h_mono * n_heads + h_chunk.  The mask
\* argument is not read by the function.
efficient_chunkwise_attention(alpha, e, mask, chunk_size, n_heads, sharpening_factor) ==
    [hh \in 0..(Rows(alpha) * n_heads - 1) |->
       [i \in DOMAIN e[0] |->
          ChunkRow(alpha[hh \div n_heads][i], e[hh % n_heads][i],
                   chunk_size, sharpening_factor)]]

-----------------------------------------------------------------------------
(* Context vector *)

\* The learned value and output projections, with fixed weights: head h of
\* w_value scales the value by h + 2, w_out sums the heads with weights h + 1.
WValue(h, v) == (h + 2) * v
WOut(parts) ==
    LET RECURSIVE Acc(_)
        Acc(h) == IF h < 0 THEN Zero
                  ELSE RAdd(Acc(h - 1), RMul(<<h + 1, 1>>, parts[h]))
    IN  Acc(Rows(parts) - 1)

\* One row of torch.matmul(weights, value) / torch.bmm(weights, value)
WeightedSum(w_row, v) ==
    SumTo([j \in DOMAIN w_row |-> RMul(w_row[j], <<v[j], 1>>)], Rows(w_row) - 1)

\* cv from the weights (alpha or beta) and the value
ContextVector(weights, value, n_total_heads) ==
    IF n_total_heads > 1
    THEN [i \in DOMAIN weights[0] |->
            WOut([h \in DOMAIN weights |->
                    WeightedSum(weights[h][i], [j \in DOMAIN value |-> WValue(h, value[j])])])]
    ELSE [i \in DOMAIN weights[0] |-> WeightedSum(weights[0][i], value)]

-----------------------------------------------------------------------------
(* MoChA.forward *)

Raised(error) == [status |-> error, cv |-> None, alpha |-> None, beta |-> None]

\* A faulty dispatch, for comparison: a mode the code does not know is taken
\* as the default mode, 'hard'
SelectionStageDefaultHard(conf, ms, c) ==
    LET klen == KLenOf(c.key)
        qlen == QLenOf(c.query)
        aw_prev == IF c.aw_prev = None
                   THEN InitialAwPrev(conf.n_heads_mono, klen)
                   ELSE Get(c.aw_prev)
    IN  IF ms.status # "ok" THEN [status |-> ms.status, alpha |-> None]
        ELSE IF c.mode = "recursive"
        THEN [status |-> "ok",
              alpha |-> Some(RecursiveMode(Get(ms.e), Get(c.noise), aw_prev))]
        ELSE IF c.mode = "parallel"
        THEN [status |-> "ok",
              alpha |-> Some(ParallelMode(Get(ms.e), Get(c.noise), aw_prev,
                                          conf.eps, conf.no_denom, None))]
        ELSE IF qlen # 1 THEN [status |-> "AssertionError", alpha |-> None]
        ELSE [status |-> "ok",
              alpha |-> Some(HardMode(Get(ms.e), aw_prev, c.eps_wait,
                                      c.boundary_rightmost))]

\* The monotonic selection stage: the energies and the mode's alpha
SelectionStage(conf, ms, c) ==
    LET klen == KLenOf(c.key)
        qlen == QLenOf(c.query)
        aw_prev == IF c.aw_prev = None
                   THEN InitialAwPrev(conf.n_heads_mono, klen)
                   ELSE Get(c.aw_prev)
        cut == IF conf.decot /\ c.trigger_point # None
               THEN Some(Get(c.trigger_point) + conf.lookahead + 1)
               ELSE None
    IN  IF ms.status # "ok" THEN [status |-> ms.status, alpha |-> None]
        ELSE IF c.mode = "recursive"
        THEN [status |-> "ok",
              alpha |-> Some(RecursiveMode(Get(ms.e), Get(c.noise), aw_prev))]
        ELSE IF c.mode = "parallel"
        THEN [status |-> "ok",
              alpha |-> Some(ParallelMode(Get(ms.e), Get(c.noise), aw_prev,
                                          conf.eps, conf.no_denom, cut))]
        ELSE IF c.mode = "hard"
        THEN IF qlen # 1 THEN [status |-> "AssertionError", alpha |-> None]
             ELSE [status |-> "ok",
                   alpha |-> Some(HardMode(Get(ms.e), aw_prev, c.eps_wait,
                                           c.boundary_rightmost))]
        ELSE [status |-> "ValueError", alpha |-> None]

\* A faulty test, for comparison: chunk_size >= 1 in place of chunk_size > 1
HasChunkFromOne(conf) == conf.chunk_size >= 1 \/ conf.chunk_size = -1

\* Whether the configuration has a chunk scorer
HasChunk(conf) == conf.chunk_size > 1 \/ conf.chunk_size = -1

\* The chunk stage, the context vector and the closing shape assertions, for
\* an alpha the selection stage produced.  cs is the chunk scorer's call
\* (read only when the configuration has a chunk scorer).
OutputStage(conf, alpha, cs, c) ==
    LET qlen == QLenOf(c.query)
        total == conf.n_heads_mono * conf.n_heads_chunk
        shaped == Rows(alpha[0]) = qlen
    IN  IF HasChunk(conf)
        THEN IF cs.status # "ok" THEN Raised(cs.status)
             ELSE IF ~shaped THEN Raised("AssertionError")
             ELSE LET beta == efficient_chunkwise_attention(
                                  alpha, Get(cs.e), c.mask, conf.chunk_size,
                                  conf.n_heads_chunk, conf.sharpening_factor)
                  IN  [status |-> "ok",
                       cv |-> Some(ContextVector(beta, c.value, total)),
                       alpha |-> Some(alpha),
                       beta |-> Some(beta)]
        ELSE IF conf.chunk_size # 1 THEN Raised("TypeError")
        ELSE IF ~shaped THEN Raised("AssertionError")
        ELSE [status |-> "ok",
              cv |-> Some(ContextVector(alpha, c.value, total)),
              alpha |-> Some(alpha),
              beta |-> None]

\* A faulty order, for comparison: the mode is tested before the monotonic
\* scorer is called, so a call that fails on its mode leaves both scorers
ForwardResultModeFirst(conf, m, ch, c) ==
    LET ms == ScorerForward(m, c.key, [i \in DOMAIN c.query |-> c.query[i].mono],
                            c.mask, c.cache, conf.n_heads_mono, conf.r)
        sel == SelectionStage(conf, ms, c)
    IN  IF ms.status = "ok" /\ sel.status # "ok"
        THEN [mono |-> m, chunk |-> ch, ret |-> Raised(sel.status)]
        ELSE IF sel.status # "ok"
        THEN [mono |-> ms.self, chunk |-> ch, ret |-> Raised(sel.status)]
        ELSE IF HasChunk(conf)
        THEN LET cs == ScorerForward(Get(ch), c.key,
                                     [i \in DOMAIN c.query |-> c.query[i].chunk],
                                     c.mask, c.cache, conf.n_heads_chunk, 0)
             IN  [mono |-> ms.self, chunk |-> Some(cs.self),
                  ret |-> OutputStage(conf, Get(sel.alpha), cs, c)]
        ELSE [mono |-> ms.self, chunk |-> ch,
              ret |-> OutputStage(conf, Get(sel.alpha), ms, c)]

\* forward(key, value, query, mask, aw_prev, mode, cache, trigger_point,
\* eps_wait, boundary_rightmost) on an instance with configuration conf and
\* scorers m (monotonic) and ch (chunk): the scorers after the call and what
\* the call returns or raises.
ForwardResult(conf, m, ch, c) ==
    LET ms == ScorerForward(m, c.key, [i \in DOMAIN c.query |-> c.query[i].mono],
                            c.mask, c.cache, conf.n_heads_mono, conf.r)
        sel == SelectionStage(conf, ms, c)
    IN  IF sel.status # "ok"
        THEN [mono |-> ms.self, chunk |-> ch, ret |-> Raised(sel.status)]
        ELSE IF HasChunk(conf)
        THEN LET cs == ScorerForward(Get(ch), c.key,
                                     [i \in DOMAIN c.query |-> c.query[i].chunk],
                                     c.mask, c.cache, conf.n_heads_chunk, 0)
             IN  [mono |-> ms.self, chunk |-> Some(cs.self),
                  ret |-> OutputStage(conf, Get(sel.alpha), cs, c)]
        ELSE [mono |-> ms.self, chunk |-> ch,
              ret |-> OutputStage(conf, Get(sel.alpha), ms, c)]

\* A forward call with arguments c
Forward(c) ==
    \E r \in {ForwardResult(cfg, mono, chunk, c)} :
        /\ mono' = r.mono
        /\ chunk' = r.chunk
        /\ ret' = Some(r.ret)
        /\ call' = Some(c)
        /\ UNCHANGED cfg

\* MoChA.__init__: the scorers of a new instance
NewChunk(conf) == IF HasChunk(conf) THEN Some(EmptyCache) ELSE None

\* A faulty reset, for comparison: the chunk scorer keeps its cache
ResetMonoOnly(m, ch) == [mono |-> EmptyCache, chunk |-> ch]

\* MoChA.reset()
ResetResult(m, ch) ==
    [mono |-> EmptyCache,
     chunk |-> IF ch # None THEN Some(EmptyCache) ELSE ch]

-----------------------------------------------------------------------------
(* Hard-mode decoding: one utterance, one forward call per output step, the
   returned alpha passed back as the next aw_prev *)

\* Constructor arguments.  conv1d, dropout and dropout_head are off.
Config(chunk_size, n_heads_mono, eps) ==
    [chunk_size |-> chunk_size, n_heads_mono |-> n_heads_mono,
     n_heads_chunk |-> 1, eps |-> eps, no_denom |-> FALSE,
     sharpening_factor |-> One, decot |-> FALSE, lookahead |-> 2, r |-> -1]

\* The encoder output of an utterance of klen frames: frame j has feature j.
\* mask is None or the `[qlen, klen]` mask of the utterance.
Utterance(klen, mask) ==
    [key |-> [j \in 0..(klen - 1) |-> j],
     value |-> [j \in 0..(klen - 1) |-> j + 1],
     mask |-> mask,
     aw_prev |-> None]

\* Utterances without a mask
Unmasked(klens) == {Utterance(k, None) : k \in klens}

\* The queries of one decoder step: every assignment of a score in vals to
\* every head and key feature
Queries(n_heads, feats, vals) ==
    {[i \in {0} |-> [mono |-> m, chunk |-> [h \in {0} |-> [f \in feats |-> 0]]]] :
        m \in [0..(n_heads - 1) -> [feats -> vals]]}

HardEnergies == {0, 1}
EpsWaits == {-1} \cup (1..MaxEpsWait)

InitWith(confs, utts) ==
    /\ cfg \in confs
    /\ mono = EmptyCache
    /\ chunk = NewChunk(cfg)
    /\ call = None
    /\ ret = None
    /\ sess \in utts
    /\ saved = None
    /\ pc = "idle"

\* One decoder step: a forward call in hard mode, boundary_rightmost in brs
HardCall(brs) ==
    /\ pc = "idle"
    /\ \E q \in Queries(cfg.n_heads_mono, DOMAIN sess.key, HardEnergies),
          ew \in EpsWaits, br \in brs :
          Forward([key |-> sess.key, value |-> sess.value, query |-> q,
                   noise |-> None, mask |-> sess.mask, aw_prev |-> sess.aw_prev,
                   mode |-> "hard", cache |-> TRUE, trigger_point |-> None,
                   eps_wait |-> ew, boundary_rightmost |-> br])
    /\ pc' = "returned"
    /\ UNCHANGED <<sess, saved>>

\* The caller keeps the returned alpha as the aw_prev of the next step
Thread ==
    /\ pc = "returned"
    /\ Get(ret).status = "ok"
    /\ sess' = [sess EXCEPT !.aw_prev = Get(ret).alpha]
    /\ call' = None
    /\ ret' = None
    /\ pc' = "idle"
    /\ UNCHANGED <<cfg, mono, chunk, saved>>

\* A new utterance begins: reset() and a new encoder output
ResetTo(utts) ==
    /\ pc = "idle"
    /\ sess.aw_prev # None
    /\ \E r \in {ResetResult(mono, chunk)} :
          mono' = r.mono /\ chunk' = r.chunk
    /\ sess' \in utts
    /\ UNCHANGED <<cfg, call, ret, saved, pc>>

\* The first MMA layer: no boundary_rightmost
Init == InitWith({Config(1, 2, <<1, 1000000>>)}, Unmasked(1..MaxKlen))
HardStep == HardCall({None})
Reset == ResetTo(Unmasked(1..MaxKlen))

Next == HardStep \/ Thread \/ Reset

Spec == Init /\ [][Next]_vars

\* A later MMA layer: the caller passes the rightmost boundary of a prior layer
LayerKlen == 3
InitLayer == InitWith({Config(1, 2, <<1, 1000000>>)}, Unmasked(1..LayerKlen))
LayerStep == HardCall({None} \cup {Some(b) : b \in 0..(LayerKlen - 1)})
LayerReset == ResetTo(Unmasked(1..LayerKlen))

NextLayer == LayerStep \/ Thread \/ LayerReset

SpecLayers == InitLayer /\ [][NextLayer]_vars

-----------------------------------------------------------------------------
(* Hard-mode decoding of masked utterances, with and without a chunk scorer *)

ChunkKlen == 3

\* The `[1 (qlen), klen]` masks of an utterance of klen frames: every
\* pattern of valid (1) and invalid (0) frames
Masks(klen) == {Some([i \in {0} |-> m]) : m \in [0..(klen - 1) -> {0, 1}]}
Masked(klens) == UNION {{Utterance(k, m) : m \in Masks(k)} : k \in klens}

\* chunk_size = 1 with two monotonic heads, chunk_size = 2 and the infinite
\* lookback (chunk_size = -1) with one
ChunkConfigs ==
    {Config(1, 2, <<1, 1000000>>), Config(2, 1, <<1, 1000000>>),
     Config(-1, 1, <<1, 1000000>>)}

InitChunk == InitWith(ChunkConfigs, Masked(1..ChunkKlen))
ChunkReset == ResetTo(Masked(1..ChunkKlen))

NextChunk == HardStep \/ Thread \/ ChunkReset

SpecChunk == InitChunk /\ [][NextChunk]_vars

-----------------------------------------------------------------------------
(* The three modes on the same inputs.  chunk_size = 1, one or two heads.
   A call in parallel mode can be replayed in recursive mode: same key,
   query, mask, aw_prev and noise. *)

ModeKlen == 2
MaxQlen == 2

ModeConfigs == {Config(1, 1, <<1, 1000>>), Config(1, 2, <<1, 1000>>)}
Modes == {"recursive", "parallel", "hard"}

\* The queries the decoder sends: three vectors, told apart by the scores
\* they get against the key frames (1 or 2 before the offset r)
QueryKinds == 0..2
ModeQuery(n_heads, feats, k) ==
    [mono |-> [h \in 0..(n_heads - 1) |->
                 [f \in feats |-> (((k + h) * (f + 1)) % 2) + 1]],
     chunk |-> [h \in {0} |-> [f \in feats |-> 0]]]
ModeQueries(n_heads, feats) ==
    UNION {[0..(qlen - 1) -> {ModeQuery(n_heads, feats, k) : k \in QueryKinds}] :
              qlen \in 1..MaxQlen}

\* The noise add_gaussian_noise draws, `[H_mono, qlen, klen]`: none, or one
\* unit down on every other entry
NoiseKinds == 0..2
Noise(n_heads, qlen, klen, n) ==
    [h \in 0..(n_heads - 1) |->
       [i \in 0..(qlen - 1) |->
          [j \in 0..(klen - 1) |->
             IF n = 0 THEN 0 ELSE -((n + h + i + j) % 2)]]]

InitModes == InitWith(ModeConfigs, Unmasked(1..ModeKlen))

\* A forward call in any mode, without latency control
ModeCall ==
    /\ pc = "idle"
    /\ \E q \in ModeQueries(cfg.n_heads_mono, DOMAIN sess.key),
          n \in NoiseKinds, mode \in Modes :
          Forward([key |-> sess.key, value |-> sess.value, query |-> q,
                   noise |-> Some(Noise(cfg.n_heads_mono, QLenOf(q),
                                        KLenOf(sess.key), n)),
                   mask |-> sess.mask, aw_prev |-> sess.aw_prev,
                   mode |-> mode, cache |-> TRUE, trigger_point |-> None,
                   eps_wait |-> -1, boundary_rightmost |-> None])
    /\ pc' = "returned"
    /\ UNCHANGED <<sess, saved>>

\* The caller keeps what parallel mode returned and makes the same call in
\* recursive mode
Replay ==
    /\ pc = "returned"
    /\ Get(call).mode = "parallel"
    /\ saved' = ret
    /\ Forward([Get(call) EXCEPT !.mode = "recursive"])
    /\ pc' = "replayed"
    /\ UNCHANGED sess

\* The alpha of the first step (aw_prev absent, one query) becomes the
\* aw_prev `[H, 1, klen]` of the second step
ModeThread ==
    /\ pc \in {"returned", "replayed"}
    /\ Get(ret).status = "ok"
    /\ sess.aw_prev = None
    /\ QLenOf(Get(call).query) = 1
    /\ sess' = [sess EXCEPT !.aw_prev = Get(ret).alpha]
    /\ call' = None
    /\ ret' = None
    /\ saved' = None
    /\ pc' = "idle"
    /\ UNCHANGED <<cfg, mono, chunk>>

\* The utterance ends, after a result or an error: reset() and a new
\* encoder output
ModeReset ==
    /\ pc \in {"returned", "replayed"}
    /\ \E r \in {ResetResult(mono, chunk)} :
          mono' = r.mono /\ chunk' = r.chunk
    /\ sess' \in Unmasked(1..ModeKlen)
    /\ call' = None
    /\ ret' = None
    /\ saved' = None
    /\ pc' = "idle"
    /\ UNCHANGED cfg

NextModes == ModeCall \/ Replay \/ ModeThread \/ ModeReset

SpecModes == InitModes /\ [][NextModes]_vars

-----------------------------------------------------------------------------
(* What a returned hard-mode call is measured against: the choose
   indicators and boundaries, read from the arguments of the call *)

Args == Get(call)
Result == Get(ret)
Returned == pc \in {"returned", "replayed"}
ReturnedOk == Returned /\ Result.status = "ok"
HardOk == ReturnedOk /\ Args.mode = "hard"
Heads == 0..(cfg.n_heads_mono - 1)
Keys == DOMAIN Args.key

\* The row of aw_prev the call worked from
AwPrevOf(h) ==
    IF Args.aw_prev = None THEN [j \in Keys |-> IF j = 0 THEN One ELSE Zero]
    ELSE Get(Args.aw_prev)[h][0]

\* The monotonic energy of key j for head h
EnergyAt(h, j) ==
    IF Args.mask # None /\ Get(Args.mask)[0][j] = 0 THEN NEG_INF
    ELSE Args.query[0].mono[h][Args.key[j]] + cfg.r

ChooseAt(h) == {j \in Keys : RLe(Half, Sigmoid(EnergyAt(h, j)))}
PrevBoundary(h) == NonzeroCols(AwPrevOf(h))
Surviving(h) == {j \in ChooseAt(h) : \E p \in PrevBoundary(h) : p <= j}
\* The boundary head h selects itself: none ({}) or one ({j})
Selected(h) == IF Surviving(h) = {} THEN {} ELSE {Min(Surviving(h))}
AllSelected == UNION {Selected(h) : h \in Heads}
\* The boundary head h has in the returned alpha
Boundary(h) == NonzeroCols(Get(Result.alpha)[h][0])
OneHotRow(S) == [j \in Keys |-> IF j \in S THEN One ELSE Zero]

\* C2: in hard mode with eps_wait <= 0 every head's alpha row is one-hot at
\* the lowest choose indicator that survives the suppression by aw_prev,
\* and all-zero when none survives.
C2_FirstSurvivingChoose ==
    (HardOk /\ Args.eps_wait <= 0) =>
        \A h \in Heads : Get(Result.alpha)[h][0] = OneHotRow(Selected(h))

\* klen = 5, aw_prev = [1,0,0,0,0], first choose at index 3: alpha = [0,0,0,1,0]
C2_Witness ==
    /\ HardOk /\ Args.eps_wait <= 0
    /\ KLenOf(Args.key) = 5
    /\ AwPrevOf(0) = [j \in 0..4 |-> IF j = 0 THEN One ELSE Zero]
    /\ ChooseAt(0) = {3, 4}
    /\ Get(Result.alpha)[0][0] = [j \in 0..4 |-> IF j = 3 THEN One ELSE Zero]

\* C3: along a hard-mode decoding that starts with aw_prev absent and passes
\* each alpha on, every row of every returned alpha is one-hot or all-zero.
C3_OneHotOrZero ==
    HardOk =>
        \A h \in Heads :
            /\ Cardinality(Boundary(h)) <= 1
            /\ Get(Result.alpha)[h][0] = OneHotRow(Boundary(h))

\* A head that latency control relocated, on a later step of the decoding
C3_Witness ==
    /\ HardOk /\ Args.eps_wait > 0 /\ Args.aw_prev # None
    /\ \E h \in Heads :
          /\ Selected(h) # {} /\ Boundary(h) # Selected(h)
          /\ Cardinality(Boundary(h)) = 1

\* C4: the boundary of a head is never smaller than the boundary the same
\* head had at the previous step, latency control included.
C4_BoundaryNeverMovesBack ==
    (HardOk /\ Args.aw_prev # None) =>
        \A h \in Heads : \A p \in PrevBoundary(h) : \A b \in Boundary(h) : p <= b

C6_SpanWithinEpsWait ==
    (HardOk /\ Args.eps_wait > 0 /\ AllSelected # {}) =>
        LET leftmost == Min(AllSelected)
            all == UNION {Boundary(h) : h \in Heads}
        IN  /\ Max(all) - Min(all) <= Args.eps_wait
            /\ \A h \in Heads : \A s \in Selected(h) :
                  Boundary(h) = IF s >= leftmost + Args.eps_wait
                                THEN {leftmost + Args.eps_wait}
                                ELSE {s}

\* A head more than eps_wait after the leftmost boundary was moved
C6_Witness ==
    /\ HardOk /\ Args.eps_wait > 0
    /\ \E h \in Heads : \E s \in Selected(h) :
          /\ s > Min(AllSelected) + Args.eps_wait
          /\ Boundary(h) = {Min(AllSelected) + Args.eps_wait}

\* C7: in hard mode with eps_wait > 0, when no head selected a boundary,
\* latency control forces one, so the returned alpha is not all-zero.
C7_FallbackForced ==
    (HardOk /\ Args.eps_wait > 0 /\ AllSelected = {}) =>
        \E h \in Heads : Boundary(h) # {}

\* C8: in hard mode with eps_wait > 0 and boundary_rightmost supplied, every
\* head's returned boundary is at most boundary_rightmost + eps_wait.
C8_WithinPriorLayer ==
    (HardOk /\ Args.eps_wait > 0 /\ Args.boundary_rightmost # None) =>
        \A h \in Heads : \A b \in Boundary(h) :
            b <= Get(Args.boundary_rightmost) + Args.eps_wait

\* Whether two alphas agree within tolerance, entry by entry
Tolerance == <<1, 1000>>
Close(a, b) ==
    /\ DOMAIN a = DOMAIN b
    /\ \A h \in DOMAIN a :
          /\ DOMAIN a[h] = DOMAIN b[h]
          /\ \A i \in DOMAIN a[h] :
                /\ DOMAIN a[h][i] = DOMAIN b[h][i]
                /\ \A j \in DOMAIN a[h][i] :
                      \/ a[h][i][j] = b[h][i][j]
                      \/ /\ RLe(RSub(a[h][i][j], b[h][i][j]), Tolerance)
                         /\ RLe(RSub(b[h][i][j], a[h][i][j]), Tolerance)

\* C1: every position with mask == 0 has weight exactly zero in the
\* returned alpha and, when beta exists, in the returned beta.
C1_MaskedWeightZero ==
    (ReturnedOk /\ Args.mask # None) =>
        \A i \in DOMAIN Get(Args.mask) : \A j \in Keys :
            Get(Args.mask)[i][j] = 0 =>
               /\ \A h \in DOMAIN Get(Result.alpha) :
                      Get(Result.alpha)[h][i][j] = Zero
               /\ Result.beta # None =>
                      \A h \in DOMAIN Get(Result.beta) :
                          Get(Result.beta)[h][i][j] = Zero

\* C9: for identical key, query, mask, aw_prev and noise, recursive mode
\* returns the alpha parallel mode returned, within tolerance.
C9_ParallelEqualsRecursive ==
    (pc = "replayed" /\ Get(saved).status = "ok") =>
        /\ Result.status = "ok"
        /\ Close(Get(Get(saved).alpha), Get(Result.alpha))

\* The alpha-weighted sum of the values: per head on the projected values
\* and merged by the output projection when there is more than one head
AlphaWeightedValues ==
    LET a == Get(Result.alpha)
        v == Args.value
        Sum(h, i, w) ==
            RowSum([j \in DOMAIN v |-> RMul(a[h][i][j], <<w[j], 1>>)])
    IN  [i \in DOMAIN Args.query |->
           IF cfg.n_heads_mono > 1
           THEN WOut([h \in Heads |->
                        Sum(h, i, [j \in DOMAIN v |-> WValue(h, v[j])])])
           ELSE Sum(0, i, v)]

\* C10: with chunk_size == 1 there is no chunk scorer, forward returns
\* beta = None in every mode, and the context vector is the alpha-weighted
\* sum of the values.
C10_NoBetaAlphaContext ==
    cfg.chunk_size = 1 =>
        /\ chunk = None
        /\ ReturnedOk =>
              /\ Result.beta = None
              /\ Get(Result.cv) = AlphaWeightedValues

\* Two heads, two queries in parallel mode, a context vector that is not zero
C10_Witness ==
    /\ cfg.chunk_size = 1 /\ cfg.n_heads_mono = 2
    /\ ReturnedOk /\ Args.mode = "parallel" /\ QLenOf(Args.query) = 2
    /\ Result.beta = None
    /\ \A i \in DOMAIN Get(Result.cv) : Get(Result.cv)[i] # Zero

-----------------------------------------------------------------------------
(* A scorer called on its own: a MonotonicEnergy (two heads, offset r) or a
   ChunkEnergy (one head), any key, mask and cache flag at any call *)

ScorerKlen == 2

\* Encoder outputs of 1..ScorerKlen frames, two per length
ScorerKeys ==
    {[j \in 0..(klen - 1) |-> j + s] : klen \in 1..ScorerKlen, s \in {0, 1}}

\* No mask, or any `[1, klen]` mask for a key of klen frames
ScorerMasks(key) == {None} \cup Masks(KLenOf(key))

\* Two queries, as their scores against every frame feature, per head
ScorerQueries ==
    {[i \in {0} |-> [h \in 0..1 |-> [f \in 0..ScorerKlen |-> (f + h + k) % 2]]] :
        k \in {0, 1}}

InitScorer ==
    /\ cfg = Config(2, 2, <<1, 1000000>>)
    /\ mono = EmptyCache
    /\ chunk \in {None, Some(EmptyCache)}
    /\ call = None
    /\ ret = None
    /\ sess = Utterance(1, None)
    /\ saved = None
    /\ pc = "idle"

\* The scorer of the behaviour: the ChunkEnergy when there is one
Scorers == IF chunk = None THEN {"mono"} ELSE {"chunk"}

\* The scorer a call names, its heads and its offset
ScorerOf(which, m, ch) == IF which = "mono" THEN m ELSE Get(ch)
HeadsOf(which) == IF which = "mono" THEN cfg.n_heads_mono ELSE cfg.n_heads_chunk
OffsetOf(which) == IF which = "mono" THEN cfg.r ELSE 0

\* scorer.forward(key, query, mask, cache) with arguments c
ScorerApply(c) ==
    \E r \in {ScorerForward(ScorerOf(c.scorer, mono, chunk), c.key, c.query,
                            c.mask, c.cache, HeadsOf(c.scorer),
                            OffsetOf(c.scorer))} :
        /\ mono' = IF c.scorer = "mono" THEN r.self ELSE mono
        /\ chunk' = IF c.scorer = "chunk" THEN Some(r.self) ELSE chunk
        /\ ret' = Some([status |-> r.status, e |-> r.e])
        /\ call' = Some(c)
        /\ UNCHANGED <<cfg, sess>>

ScorerCall ==
    /\ \E which \in Scorers, key \in ScorerKeys,
          query \in ScorerQueries, cache \in BOOLEAN :
          \E mask \in ScorerMasks(key) :
             ScorerApply([scorer |-> which, key |-> key, query |-> query,
                          mask |-> mask, cache |-> cache])
    /\ saved' = None
    /\ pc' = "returned"

\* The call made last, with cache=True, made again with the same key, mask
\* and query; the caller keeps what the first call returned and the cache
\* it left
ScorerRepeat ==
    /\ pc = "returned"
    /\ Get(call).cache
    /\ saved' = Some([ret |-> Get(ret),
                      scorer |-> ScorerOf(Get(call).scorer, mono, chunk)])
    /\ ScorerApply(Get(call))
    /\ pc' = "repeated"

\* scorer.reset()
ScorerReset ==
    /\ pc # "idle"
    /\ \E which \in Scorers :
          /\ mono' = IF which = "mono" THEN EmptyCache ELSE mono
          /\ chunk' = IF which = "chunk" THEN Some(EmptyCache) ELSE chunk
    /\ call' = None
    /\ ret' = None
    /\ saved' = None
    /\ pc' = "idle"
    /\ UNCHANGED <<cfg, sess>>

NextScorer == ScorerCall \/ ScorerRepeat \/ ScorerReset

SpecScorer == InitScorer /\ [][NextScorer]_vars

\* The scorer the call made last went to, before and after a step
CalledBefore == ScorerOf(Get(call').scorer, mono, chunk)
CalledAfter == ScorerOf(Get(call').scorer, mono', chunk')

\* C11: a scorer call with cache=True on a populated cache leaves the cached
\* key and mask as they were, and the same call made twice returns the same
\* energies and leaves the same cache.
C11_CachedCallIdempotent ==
    /\ [][(pc' \in {"returned", "repeated"} /\ Get(call').cache
              /\ CalledBefore.key # None)
            => CalledAfter = CalledBefore]_vars
    /\ [](pc = "repeated" =>
            /\ Get(ret) = Get(saved).ret
            /\ ScorerOf(Get(call).scorer, mono, chunk) = Get(saved).scorer)

\* A repeated call on the chunk scorer that returned masked energies from a
\* cache another key had populated before
C11_Witness ==
    /\ pc = "repeated"
    /\ Get(call).scorer = "chunk"
    /\ Get(ret).status = "ok"
    /\ Get(call).mask = None
    /\ Get(chunk).mask # None
    /\ Get(Get(chunk).key)[0] # [j \in DOMAIN Get(call).key |-> <<0, Get(call).key[j]>>]

-----------------------------------------------------------------------------
(* An orchestrator over several utterances: forward calls in any mode, valid
   or not, with and without the cache flag, and reset() between utterances.
   The caller owns aw_prev and boundary_rightmost. *)

CallKlen == 2

CallConfigs == {Config(1, 2, <<1, 1000>>), Config(2, 1, <<1, 1000>>)}
CallModes == Modes \cup {"greedy"}

\* What the caller holds for an utterance: the encoder output (frame j has
\* feature j + s), its mask, and the alignment state it threads through
Caller(klen, s, mask) ==
    [key |-> [j \in 0..(klen - 1) |-> j + s],
     value |-> [j \in 0..(klen - 1) |-> j + 1],
     mask |-> mask,
     aw_prev |-> None,
     boundary_rightmost |-> None]
\* No mask, or the `[1, klen]` mask that hides the last frame of a longer
\* utterance
CallMasks(klen) ==
    {None, Some([i \in {0} |->
                   [j \in 0..(klen - 1) |-> IF j > 0 /\ j = klen - 1 THEN 0 ELSE 1]])}
Callers ==
    UNION {{Caller(klen, s, mask) : mask \in CallMasks(klen)} :
              klen \in 1..CallKlen, s \in {0, 1}}

\* Two queries of one decoder step, as scores against every frame feature
CallQueries(n_heads) ==
    {[i \in {0} |->
        [mono |-> [h \in 0..(n_heads - 1) |->
                     [f \in 0..CallKlen |-> ((f + h + k) % 2) + 1]],
         chunk |-> [h \in {0} |-> [f \in 0..CallKlen |-> (f + k) % 2]]]] :
       k \in {0, 1}}

InitCalls ==
    /\ cfg \in CallConfigs
    /\ mono = EmptyCache
    /\ chunk = NewChunk(cfg)
    /\ call = None
    /\ ret = None
    /\ sess \in Callers
    /\ saved = None
    /\ pc = "idle"

\* A faulty forward, for comparison: the cumulative sum taken in place, on
\* the caller's aw_prev
ArgumentsInPlace(conf, c) ==
    [aw_prev |-> IF c.aw_prev = None THEN None
                 ELSE Some([h \in DOMAIN Get(c.aw_prev) |->
                             [i \in DOMAIN Get(c.aw_prev)[h] |->
                                cumsum(Get(c.aw_prev)[h][i])]]),
     boundary_rightmost |-> c.boundary_rightmost]

\* The caller's aw_prev and boundary_rightmost after forward returned or
\* raised: forward binds its local name aw_prev to new tensors and writes
\* only to tensors it created; boundary_rightmost is an int.
ArgumentsAfter(conf, c) ==
    [aw_prev |-> c.aw_prev, boundary_rightmost |-> c.boundary_rightmost]

\* A forward call on the caller's utterance; the first call after reset()
\* is marked "first"
Call ==
    /\ \E q \in CallQueries(cfg.n_heads_mono), mode \in CallModes,
          cache \in BOOLEAN :
          \E ew \in IF mode = "hard" THEN {-1, 1} ELSE {-1} :
          LET c == [key |-> sess.key, value |-> sess.value, query |-> q,
                    noise |-> Some(Noise(cfg.n_heads_mono, 1,
                                         KLenOf(sess.key), 0)),
                    mask |-> sess.mask, aw_prev |-> sess.aw_prev,
                    mode |-> mode, cache |-> cache, trigger_point |-> None,
                    eps_wait |-> ew,
                    boundary_rightmost |-> sess.boundary_rightmost]
          IN  /\ Forward(c)
              /\ \E a \in {ArgumentsAfter(cfg, c)} :
                    sess' = [sess EXCEPT
                               !.aw_prev = a.aw_prev,
                               !.boundary_rightmost = a.boundary_rightmost]
    /\ pc' = IF pc = "fresh" THEN "first" ELSE "returned"
    /\ saved' = IF pc = "fresh" THEN saved ELSE None

\* The caller takes the returned alpha as the next aw_prev and the first
\* frame as the boundary of the layer below
CallThread ==
    /\ pc \in {"returned", "first"}
    /\ Get(ret).status = "ok"
    /\ sess.aw_prev = None
    /\ sess' = [sess EXCEPT !.aw_prev = Get(ret).alpha,
                            !.boundary_rightmost = Some(0)]
    /\ saved' = None
    /\ pc' = "idle"
    /\ UNCHANGED <<cfg, mono, chunk, call, ret>>

\* A new utterance begins: reset() and a new encoder output.  The caches
\* the scorers held before are remembered in saved until the first call of
\* the new utterance has returned.
CallReset ==
    /\ pc \in {"returned", "first"}
    /\ \E r \in {ResetResult(mono, chunk)} :
          mono' = r.mono /\ chunk' = r.chunk
    /\ saved' = Some([mono |-> mono, chunk |-> chunk])
    /\ sess' \in Callers
    /\ call' = None
    /\ ret' = None
    /\ pc' = "fresh"
    /\ UNCHANGED cfg

NextCalls == Call \/ CallThread \/ CallReset

SpecCalls == InitCalls /\ [][NextCalls]_vars

\* C12: after reset() both scorers hold no key and no mask, and the first
\* call after reset(), whatever its cache flag, returns what a newly
\* constructed orchestrator returns for the same call, whichever calls came
\* before the reset.
C12_ResetForgets ==
    /\ pc = "fresh" => mono = EmptyCache /\ chunk = NewChunk(cfg)
    /\ pc = "first" =>
          Get(ret) = ForwardResult(cfg, EmptyCache, NewChunk(cfg), Get(call)).ret

\* A first call after reset() with cache=True that returned a context
\* vector, on an orchestrator with a chunk scorer whose caches held, before
\* the reset, another key and a mask
C12_Witness ==
    /\ pc = "first"
    /\ Get(call).cache
    /\ Get(ret).status = "ok"
    /\ chunk # None
    /\ Get(saved).mono.key # None
    /\ Get(saved).mono.key # mono.key
    /\ Get(Get(saved).chunk).key # Get(chunk).key
    /\ Get(Get(saved).chunk).mask # None
    /\ Get(call).mask = None

C14_InvalidModeRaises ==
    (pc \in {"returned", "first"} /\ Get(call).mode \notin Modes) =>
        /\ Get(ret).status = "ValueError"
        /\ Get(ret).cv = None
        /\ Get(ret).alpha = None
        /\ Get(ret).beta = None

\* A first call of an utterance in mode 'greedy', with the cache flag, on an
\* orchestrator with a chunk scorer: it raised after the monotonic scorer
\* had cached the key and before the chunk scorer was called
C14_Witness ==
    /\ pc = "first"
    /\ Get(call).mode = "greedy"
    /\ Get(call).cache
    /\ Get(ret).status = "ValueError"
    /\ chunk # None
    /\ mono.key # None
    /\ Get(chunk).key = None

-----------------------------------------------------------------------------
(* The numeric functions on their own: an input is drawn, the function is
   applied to it *)

FnLen == 3
MaxPad == 2

\* Rows of 1..FnLen entries over vals
FnRows(vals) == UNION {[0..(klen - 1) -> vals] : klen \in 1..FnLen}

\* moving_sum(x, back, forward) on one row of non-negative numbers
MovingSumInputs ==
    {[fn |-> "moving_sum", args |-> <<x, back, forward>>] :
        x \in FnRows({Zero, One, <<2, 1>>}),
        back \in 0..MaxPad, forward \in 0..MaxPad}

\* efficient_chunkwise_attention on one head and one query: a soft alpha
\* with chunk energies close to each other, or a one-hot alpha with chunk
\* energies 11 and 12 units (of ln 3) below the largest of the row
ChunkSizes == {1, 2, -1}
OneHotRows == {[j \in 0..(klen - 1) |-> IF j = k THEN One ELSE Zero] :
                  klen \in 1..FnLen, k \in 0..(FnLen - 1)}
ChunkwiseInputs ==
    {[fn |-> "chunkwise", args |-> <<alpha, e, chunk_size, sf>>] :
        alpha \in FnRows({Zero, Half, One}), e \in FnRows({0, 1, 2}),
        chunk_size \in ChunkSizes, sf \in {One, <<2, 1>>}}
    \cup {[fn |-> "chunkwise", args |-> <<alpha, e, chunk_size, One>>] :
             alpha \in OneHotRows, e \in FnRows({0, -11, -12}),
             chunk_size \in ChunkSizes}

\* safe_cumprod(x, eps) on one row of numbers of [0, 1]
CumprodInputs ==
    {[fn |-> "safe_cumprod", args |-> <<x, eps>>] :
        x \in FnRows({Zero, <<1, 4>>, Half, One}),
        eps \in {<<1, 1000>>, <<1, 10>>}}

FnInputs ==
    MovingSumInputs \cup CumprodInputs
    \cup {in \in ChunkwiseInputs : DOMAIN in.args[1] = DOMAIN in.args[2]}

InitFunctions ==
    /\ cfg = Config(2, 1, <<1, 1000>>)
    /\ mono = EmptyCache
    /\ chunk = NewChunk(cfg)
    /\ call = None
    /\ ret = None
    /\ sess \in FnInputs
    /\ saved = None
    /\ pc = "idle"

ApplyMovingSum ==
    /\ pc = "idle"
    /\ sess.fn = "moving_sum"
    /\ ret' = Some(moving_sum(sess.args[1], sess.args[2], sess.args[3]))
    /\ pc' = "done"
    /\ UNCHANGED <<cfg, mono, chunk, call, sess, saved>>

\* The beta of the one head and query
ApplyChunkwise ==
    /\ pc = "idle"
    /\ sess.fn = "chunkwise"
    /\ ret' = Some(efficient_chunkwise_attention(
                      [h \in {0} |-> [i \in {0} |-> sess.args[1]]],
                      [h \in {0} |-> [i \in {0} |-> sess.args[2]]],
                      None, sess.args[3], 1, sess.args[4])[0][0])
    /\ pc' = "done"
    /\ UNCHANGED <<cfg, mono, chunk, call, sess, saved>>

ApplySafeCumprod ==
    /\ pc = "idle"
    /\ sess.fn = "safe_cumprod"
    /\ ret' = Some(safe_cumprod(sess.args[1], sess.args[2]))
    /\ pc' = "done"
    /\ UNCHANGED <<cfg, mono, chunk, call, sess, saved>>

NextFunctions == ApplyMovingSum \/ ApplyChunkwise \/ ApplySafeCumprod

SpecFunctions == InitFunctions /\ [][NextFunctions]_vars

\* The sum of x over the positions in S
RECURSIVE SumOver(_, _)
SumOver(x, S) ==
    IF S = {} THEN Zero
    ELSE LET k == CHOOSE k \in S : TRUE
         IN  RAdd(x[k], SumOver(x, S \ {k}))

Applied(fn) == pc = "done" /\ sess.fn = fn

\* C15: moving_sum returns a row as long as its input whose element j is the
\* sum of x[k] over the k of the row with j - back <= k <= j + forward.
C15_MovingSumIsWindowSum ==
    Applied("moving_sum") =>
        LET x == sess.args[1]
            back == sess.args[2]
            forward == sess.args[3]
        IN  /\ DOMAIN Get(ret) = DOMAIN x
            /\ \A j \in DOMAIN x :
                  Get(ret)[j] =
                      SumOver(x, {k \in DOMAIN x :
                                     j - back <= k /\ k <= j + forward})

\* A row of three different entries summed over one position back and two
\* forward: the windows are cut at both ends of the row
C15_Witness ==
    /\ Applied("moving_sum")
    /\ sess.args[1] = [j \in 0..2 |-> IF j = 1 THEN <<2, 1>>
                                       ELSE IF j = 2 THEN One ELSE Zero]
    /\ sess.args[2] = 1
    /\ sess.args[3] = 2
    /\ Get(ret) = [j \in 0..2 |-> <<3, 1>>]

\* The window of boundary k: the chunk_size frames up to k, or all frames up
\* to k for the infinite lookback
Window(k, chunk_size) ==
    {l \in 0..k : chunk_size = -1 \/ l >= k - chunk_size + 1}

\* The windowed softmax, boundary by boundary, from the weights w of the
\* frames: beta[j] = sum over k of alpha[k] * sf * w[j] / sum of w over the
\* window of k, for the k whose window holds j
NaiveBeta(alpha, w, chunk_size, sf) ==
    [j \in DOMAIN alpha |->
       SumOver([k \in DOMAIN alpha |->
                  RDiv(RMul(RMul(alpha[k], sf), w[j]),
                       SumOver(w, Window(k, chunk_size)))],
               {k \in DOMAIN alpha : j \in Window(k, chunk_size)})]

\* exp(e[l]) up to the factor exp(-max e) common to the row, which cancels
\* in every quotient
ExpWeights(e) ==
    LET top == Max({e[l] : l \in DOMAIN e})
    IN  [l \in DOMAIN e |-> <<1, Pow3(top - e[l])>>]

\* max(exp(e[l] - max e), 1e-5)
ClampedWeights(e) ==
    LET top == Max({e[l] : l \in DOMAIN e})
    IN  [l \in DOMAIN e |->
           IF RLe(<<1, Pow3(top - e[l])>>, <<1, 100000>>) THEN <<1, 100000>>
           ELSE <<1, Pow3(top - e[l])>>]

\* A number of [0, 2] in thousandths, rounded down
Milli(a) == (a[1] * 1000) \div a[2]
Near(a, b) == Abs(Milli(a) - Milli(b)) <= 1

\* C16 as stated: beta equals, to the thousandth, the windowed softmax of
\* the chunk energies themselves.
C16_BetaIsWindowedSoftmax ==
    Applied("chunkwise") =>
        LET naive == NaiveBeta(sess.args[1], ExpWeights(sess.args[2]),
                               sess.args[3], sess.args[4])
        IN  /\ DOMAIN Get(ret) = DOMAIN naive
            /\ \A j \in DOMAIN naive : Near(Get(ret)[j], naive[j])

\* C16, amended: beta equals the windowed softmax of the clamped weights
\* max(exp(e[l] - max e), 1e-5).
C16_BetaIsClampedWindowedSoftmax ==
    Applied("chunkwise") =>
        Get(ret) = NaiveBeta(sess.args[1], ClampedWeights(sess.args[2]),
                             sess.args[3], sess.args[4])

\* A boundary whose window of two frames lies 11 and 12 units below the
\* largest energy: both weights are clamped and beta is 1/2 and 1/2, where
\* the softmax of the energies is 3/4 and 1/4
C16_Witness ==
    /\ Applied("chunkwise")
    /\ sess.args[2] = [j \in 0..2 |-> IF j = 0 THEN 0 ELSE -10 - j]
    /\ sess.args[1] = [j \in 0..2 |-> IF j = 2 THEN One ELSE Zero]
    /\ sess.args[3] = 2
    /\ Get(ret) = [j \in 0..2 |-> IF j = 0 THEN Zero ELSE Half]
    /\ NaiveBeta(sess.args[1], ExpWeights(sess.args[2]), 2, One)
         = [j \in 0..2 |-> IF j = 0 THEN Zero
                            ELSE IF j = 1 THEN <<3, 4>> ELSE <<1, 4>>]

\* The product of x over the positions in S
RECURSIVE ProdOver(_, _)
ProdOver(x, S) ==
    IF S = {} THEN One
    ELSE LET k == CHOOSE k \in S : TRUE
         IN  RMul(x[k], ProdOver(x, S \ {k}))

\* clamp(x, eps, 1), entry by entry
Clamped(x, eps) == [j \in DOMAIN x |-> RClamp(x[j], eps, One)]

\* C17 as stated: output[j] of safe_cumprod is the product of the clamped
\* inputs at positions 0..j.
C17_InclusiveProduct ==
    Applied("safe_cumprod") =>
        /\ DOMAIN Get(ret) = DOMAIN sess.args[1]
        /\ \A j \in DOMAIN Get(ret) :
              Get(ret)[j] = ProdOver(Clamped(sess.args[1], sess.args[2]), 0..j)

\* C17, amended: output[j] of safe_cumprod is the product of the clamped
\* inputs at positions 0..j-1, and output[0] is 1.
C17_ExclusiveProduct ==
    Applied("safe_cumprod") =>
        /\ DOMAIN Get(ret) = DOMAIN sess.args[1]
        /\ \A j \in DOMAIN Get(ret) :
              Get(ret)[j] =
                  ProdOver(Clamped(sess.args[1], sess.args[2]), 0..(j - 1))

\* A row with a zero, clamped to eps, in the middle: the zero shows in the
\* output one position later, and the last input does not show at all
C17_Witness ==
    /\ Applied("safe_cumprod")
    /\ sess.args[1] = [j \in 0..2 |-> IF j = 0 THEN Half
                                       ELSE IF j = 1 THEN Zero ELSE <<1, 4>>]
    /\ sess.args[2] = <<1, 1000>>
    /\ Get(ret) = [j \in 0..2 |-> IF j = 0 THEN One
                                   ELSE IF j = 1 THEN Half ELSE <<1, 2000>>]

-----------------------------------------------------------------------------
(* Recursive mode, measured against the arguments of the call *)

\* C18: a call in recursive mode returns, for every qlen >= 1, an alpha with
\* qlen rows per head, each over the klen keys.
C18_RecursiveRowsPerQuery ==
    (Returned /\ Args.mode = "recursive") =>
        /\ Result.status = "ok"
        /\ DOMAIN Get(Result.alpha) = Heads
        /\ \A h \in Heads :
              /\ DOMAIN Get(Result.alpha)[h] = DOMAIN Args.query
              /\ \A i \in DOMAIN Args.query :
                    DOMAIN Get(Result.alpha)[h][i] = Keys

\* sigmoid(e_mono + noise) of key j for head h, first query position
PChooseAt(h, j) == Sigmoid(EnergyAt(h, j) + Get(Args.noise)[h][0][j])

\* q as the sentence gives it: q[0] = 1, q[j+1] = (1 - p[j]) * q[j] + aw_prev[j]
RECURSIVE StatedQ(_, _)
StatedQ(h, j) ==
    IF j = 0 THEN One
    ELSE RAdd(RMul(RSub(One, PChooseAt(h, j - 1)), StatedQ(h, j - 1)),
              AwPrevOf(h)[j - 1])

CarriedTo(h, j) ==
    SumOver([k \in Keys |->
               RMul(AwPrevOf(h)[k],
                    ProdOver([m \in Keys |-> RSub(One, PChooseAt(h, m))],
                             k..(j - 1)))],
            0..j)

-----------------------------------------------------------------------------
(* Hard mode without latency control, after a one-hot previous alignment *)

\* Head h of the returned call worked from an aw_prev that is one-hot at p,
\* and latency control was off
AfterOneHot(h, p) ==
    /\ HardOk
    /\ Args.eps_wait <= 0
    /\ p \in Keys
    /\ AwPrevOf(h) = [j \in Keys |-> IF j = p THEN One ELSE Zero]

\* C20 as stated: the choose indicators at and before the previous boundary
\* p are suppressed, so a new boundary is strictly greater than p.
C20_BoundaryStrictlyAfter ==
    \A h \in Heads : \A p \in 0..(MaxKlen - 1) :
        AfterOneHot(h, p) => \A j \in Boundary(h) : j > p

\* C20, amended: the choose indicators before the previous boundary p are
\* suppressed and the one at p is kept, so a new boundary is p or greater,
\* and it is p when the head chooses at p.
C20_BoundaryAtOrAfter ==
    \A h \in Heads : \A p \in 0..(MaxKlen - 1) :
        AfterOneHot(h, p) =>
            /\ \A j \in Boundary(h) : j >= p
            /\ p \in ChooseAt(h) => Boundary(h) = {p}
            /\ (ChooseAt(h) \cap p..(MaxKlen - 1)) # {} => Boundary(h) # {}

\* A head that chooses before its previous boundary p > 0, at p and after
\* it, and stays at p
C20_Witness ==
    \E h \in Heads : \E p \in 1..(MaxKlen - 2) :
        /\ AfterOneHot(h, p)
        /\ Args.aw_prev # None
        /\ {p - 1, p, p + 1} \subseteq ChooseAt(h)
        /\ Boundary(h) = {p}

-----------------------------------------------------------------------------
(* Hard mode after a step that found no boundary *)

\* Head h of the returned call worked from an all-zero row of aw_prev
NoPrevBoundary(h) == Args.aw_prev # None /\ PrevBoundary(h) = {}

\* The caller holds an all-zero aw_prev
SessNoBoundary ==
    /\ sess.aw_prev # None
    /\ \A h \in DOMAIN Get(sess.aw_prev) :
          NonzeroCols(Get(sess.aw_prev)[h][0]) = {}

\* C21: a hard-mode step whose aw_prev is all-zero for all heads returns an
\* all-zero alpha, for any energies, eps_wait and boundary_rightmost, and
\* with eps_wait <= 0 a head with an all-zero row of aw_prev returns an
\* all-zero row; a caller that holds an all-zero aw_prev holds one until the
\* utterance ends.
C21_NoBoundaryAbsorbing ==
    /\ [](HardOk =>
            /\ (\A h \in Heads : NoPrevBoundary(h))
                  => \A h \in Heads : Boundary(h) = {}
            /\ Args.eps_wait <= 0
                  => \A h \in Heads : NoPrevBoundary(h) => Boundary(h) = {})
    /\ [][SessNoBoundary => (SessNoBoundary' \/ sess'.aw_prev = None)]_vars

\* A step with latency control and a boundary of the layer below, all heads
\* choosing some frame, after a step that found no boundary: no boundary
C21_Witness ==
    /\ HardOk
    /\ Args.eps_wait >= 1
    /\ Args.boundary_rightmost # None
    /\ SessNoBoundary
    /\ \A h \in Heads :
          NoPrevBoundary(h) /\ ChooseAt(h) # {} /\ Boundary(h) = {}

-----------------------------------------------------------------------------
(* Hard-mode decoding with a chunk scorer and no mask: one monotonic head,
   chunk sizes 2, 3 and -1, chunk energies near the row's largest or 12
   units (of ln 3) below it *)

WindowKlen == 4

WindowConfigs ==
    {Config(2, 1, <<1, 1000000>>), Config(3, 1, <<1, 1000000>>),
     Config(-1, 1, <<1, 1000000>>)}

\* The queries of one decoder step: a score in HardEnergies per key feature
\* for the monotonic head, 0 or -12 for the chunk head
WindowQueries(feats) ==
    {[i \in {0} |-> [mono |-> [h \in {0} |-> m], chunk |-> [h \in {0} |-> c]]] :
        m \in [feats -> HardEnergies], c \in [feats -> {0, -12}]}

InitWindow == InitWith(WindowConfigs, Unmasked(1..WindowKlen))

WindowStep ==
    /\ pc = "idle"
    /\ \E q \in WindowQueries(DOMAIN sess.key) :
          Forward([key |-> sess.key, value |-> sess.value, query |-> q,
                   noise |-> None, mask |-> sess.mask, aw_prev |-> sess.aw_prev,
                   mode |-> "hard", cache |-> TRUE, trigger_point |-> None,
                   eps_wait |-> -1, boundary_rightmost |-> None])
    /\ pc' = "returned"
    /\ UNCHANGED <<sess, saved>>

WindowReset == ResetTo(Unmasked(1..WindowKlen))

NextWindow == WindowStep \/ Thread \/ WindowReset

SpecWindow == InitWindow /\ [][NextWindow]_vars

\* C22: in hard mode without a mask, the beta of a head whose alpha is
\* one-hot at t is nonzero exactly on the window of t, the chunk_size frames
\* up to t or all frames up to t for chunk_size = -1, and the beta of a head
\* without a boundary is zero everywhere.
C22_BetaOnWindow ==
    (HardOk /\ Args.mask = None /\ HasChunk(cfg)) =>
        /\ Result.beta # None
        /\ \A h \in Heads :
              NonzeroCols(Get(Result.beta)[h][0]) =
                  UNION {Window(t, cfg.chunk_size) : t \in Boundary(h)}

\* A boundary at the last of four frames with chunk_size 3, the chunk
\* energies of the window 12 units below that of frame 0: beta is nonzero on
\* frames 1..3 and zero on frame 0
C22_Witness ==
    /\ HardOk
    /\ Args.mask = None
    /\ Args.aw_prev # None
    /\ cfg.chunk_size = 3
    /\ Boundary(0) = {3}
    /\ Args.query[0].chunk[0] = [f \in 0..3 |-> IF f = 0 THEN 0 ELSE -12]
    /\ NonzeroCols(Get(Result.beta)[0][0]) = {1, 2, 3}

-----------------------------------------------------------------------------
(* A scorer called without and with the cache flag *)

\* The call a step makes, and the energies of its query against the key and
\* mask a scorer holds
CallMade == Get(call')
StoredEnergies(self, c) ==
    LET k == Get(self.key)
    IN  [h \in DOMAIN k |->
          [i \in DOMAIN c.query |->
            [j \in DOMAIN k[h] |->
               IF self.mask # None /\ Get(self.mask)[h][0][j] = 0 THEN NEG_INF
               ELSE c.query[i][h][k[h][j][2]] + OffsetOf(c.scorer)]]]

\* A call without the cache flag stores the key and mask it is given
UncachedCallStores ==
    (pc' \in {"returned", "repeated"} /\ ~CallMade.cache) =>
        CalledAfter = [key |-> Some(ProjectKey(CallMade.key,
                                               HeadsOf(CallMade.scorer))),
                       mask |-> ExpandMask(CallMade.mask,
                                           HeadsOf(CallMade.scorer))]

-----------------------------------------------------------------------------
(* An orchestrator with a chunk scorer whose caller passes a new encoder
   output at any call, with or without the cache flag, in hard mode with one
   or two query positions or in an unknown mode *)

FailKlen == 2

\* Encoder outputs of 1..FailKlen frames, two per length
FailKeys ==
    {[j \in 0..(klen - 1) |-> j + s] : klen \in 1..FailKlen, s \in {0, 1}}

\* A query of qlen positions, as scores against every frame feature
FailQuery(qlen) ==
    [i \in 0..(qlen - 1) |->
       [mono |-> [h \in {0} |-> [f \in 0..FailKlen |-> ((f + i) % 2) + 1]],
        chunk |-> [h \in {0} |-> [f \in 0..FailKlen |-> f % 2]]]]

\* No mask, or for one query position the mask that hides the last frame
FailMasks(qlen, klen) ==
    IF qlen = 1 THEN CallMasks(klen) ELSE {None}

InitFail ==
    /\ cfg = Config(2, 1, <<1, 1000000>>)
    /\ mono = EmptyCache
    /\ chunk = NewChunk(cfg)
    /\ call = None
    /\ ret = None
    /\ sess = Utterance(1, None)
    /\ saved = None
    /\ pc = "idle"

FailCall ==
    /\ \E key \in FailKeys, qlen \in {1, 2}, mode \in {"hard", "greedy"},
          cache \in BOOLEAN :
          \E mask \in FailMasks(qlen, KLenOf(key)) :
             Forward([key |-> key,
                      value |-> [j \in DOMAIN key |-> j + 1],
                      query |-> FailQuery(qlen), noise |-> None,
                      mask |-> mask, aw_prev |-> None, mode |-> mode,
                      cache |-> cache, trigger_point |-> None,
                      eps_wait |-> -1, boundary_rightmost |-> None])
    /\ pc' = "returned"
    /\ UNCHANGED <<sess, saved>>

FailReset ==
    /\ pc = "returned"
    /\ \E r \in {ResetResult(mono, chunk)} :
          mono' = r.mono /\ chunk' = r.chunk
    /\ call' = None
    /\ ret' = None
    /\ pc' = "idle"
    /\ UNCHANGED <<cfg, sess, saved>>

NextFail == FailCall \/ FailReset

SpecFail == InitFail /\ [][NextFail]_vars

\* The call a step makes reaches its mode test (the monotonic scorer
\* returns energies) and fails there
FailsOnMode ==
    /\ pc' = "returned"
    /\ \/ CallMade.mode \notin Modes
       \/ CallMade.mode = "hard" /\ QLenOf(CallMade.query) # 1
    /\ ScorerForward(mono, CallMade.key,
                     [i \in DOMAIN CallMade.query |-> CallMade.query[i].mono],
                     CallMade.mask, CallMade.cache, cfg.n_heads_mono,
                     cfg.r).status = "ok"

\* What the call raises and leaves of the chunk scorer
RaisedOnMode ==
    /\ Get(ret') = Raised(IF CallMade.mode \notin Modes THEN "ValueError"
                          ELSE "AssertionError")
    /\ chunk' = chunk

\* The key and mask of the call, as a scorer of one head stores them
StoredFrom(c) ==
    [key |-> Some(ProjectKey(c.key, 1)), mask |-> ExpandMask(c.mask, 1)]

\* C24 as stated: after a call that fails on its mode test the monotonic
\* scorer holds the key and mask of that call and the chunk scorer is
\* unchanged.
C24_FailedCallStoresKey ==
    [][FailsOnMode => (RaisedOnMode /\ mono' = StoredFrom(CallMade))]_vars

\* C24, amended: after a call that fails on its mode test the chunk scorer
\* is unchanged and the monotonic scorer holds the key and mask of that call
\* when the call had cache=False or the scorer held no key, and is unchanged
\* too when the call had cache=True and the scorer held a key.
C24_FailedCallRunsMonoScorer ==
    [][FailsOnMode =>
          /\ RaisedOnMode
          /\ mono' = IF CallMade.cache /\ mono.key # None THEN mono
                     ELSE StoredFrom(CallMade)]_vars

\* A call with cache=True that returned a beta, computed from a monotonic
\* scorer and a chunk scorer that hold projections of two encoder outputs
C24_Witness ==
    /\ pc = "returned"
    /\ Get(call).cache
    /\ Get(call).mode = "hard"
    /\ Get(ret).status = "ok"
    /\ Get(ret).beta # None
    /\ Get(chunk).key = Some(ProjectKey(Get(call).key, 1))
    /\ mono.key # None
    /\ mono.key # Get(chunk).key

-----------------------------------------------------------------------------
(* TransformerXL: the memory of hidden states carried from one segment to the
   next.  A tensor `[B, len, d_model]` is the sequence of its len entries of
   one batch element; dim tells the empty 1-D tensor of init_memory from a
   3-D one.  The hidden state of layer l at position t of the stream, in a
   segment of content v, is the entry <<l, t, v>>. *)

MaxMemLen == 2
MaxSegment == 3
MaxStream == 6

\* TransformerXL.__init__: self.mem_len from args.mem_len, args.bptt and
\* args.recog_mem_len
MemLenOf(args) ==
    IF args.recog_mem_len > 0 THEN args.recog_mem_len
    ELSE IF args.mem_len > 0 THEN args.mem_len
    ELSE args.bptt

XlArgs ==
    [n_layers : {1, 2}, mem_len : 0..MaxMemLen, bptt : {0, MaxMemLen + 1},
     recog_mem_len : {0, 1}]

\* torch.empty(0) for every layer
init_memory(n_layers) == [l \in 1..n_layers |-> [dim |-> 1, rows |-> <<>>]]

\* t[:, start:end] on the entries of a tensor: the indices are cut to the
\* tensor's length
Slice(rows, start, end) ==
    LET hi == Min({end, Len(rows)})
    IN  IF start >= hi THEN <<>>
        ELSE [k \in 1..(hi - start) |-> rows[start + k]]

\* A faulty slice, for comparison: the first mem_len entries are kept
UpdateMemoryOldest(self, memory_prev, hidden_states) ==
    LET prev == IF memory_prev = None THEN init_memory(self.n_layers)
                ELSE Get(memory_prev)
    IN  IF Len(hidden_states) # Len(prev)
        THEN [status |-> "AssertionError", new_mems |-> None]
        ELSE [status |-> "ok",
              new_mems |->
                 Some([l \in DOMAIN prev |->
                         [dim |-> 3,
                          rows |-> Slice(prev[l].rows \o hidden_states[l],
                                         0, self.mem_len)]])]

\* update_memory(memory_prev, hidden_states): start_idx and end_idx are
\* computed from the first layer and applied to every layer
update_memory(self, memory_prev, hidden_states) ==
    LET prev == IF memory_prev = None THEN init_memory(self.n_layers)
                ELSE Get(memory_prev)
        mlen == IF prev[1].dim > 1 THEN Len(prev[1].rows) ELSE 0
        qlen == Len(hidden_states[1])
        end_idx == mlen + qlen
        start_idx == Max({0, end_idx - self.mem_len})
    IN  IF Len(hidden_states) # Len(prev)
        THEN [status |-> "AssertionError", new_mems |-> None]
        ELSE [status |-> "ok",
              new_mems |->
                 Some([l \in DOMAIN prev |->
                         [dim |-> 3,
                          rows |-> Slice(prev[l].rows \o hidden_states[l],
                                         start_idx, end_idx)]])]

\* The hidden states of a segment of qlen positions after seen positions of
\* the stream: one tensor per layer, all of qlen entries
HiddenStates(n_layers, seen, qlen, v) ==
    [l \in 1..n_layers |-> [k \in 1..qlen |-> <<l, seen + k, v>>]]

\* A stream begins: no memory.  stream records, per layer, every hidden
\* state of the stream so far.
NewStream(n_layers) ==
    [mems |-> None, stream |-> [l \in 1..n_layers |-> <<>>]]

InitXl ==
    /\ \E args \in XlArgs :
          cfg = [n_layers |-> args.n_layers, mem_len |-> MemLenOf(args)]
    /\ mono = EmptyCache
    /\ chunk = None
    /\ call = None
    /\ ret = None
    /\ sess = NewStream(cfg.n_layers)
    /\ saved = None
    /\ pc = "idle"

\* The model reads a segment and updates the memory the caller passed
XlUpdate ==
    /\ pc = "idle"
    /\ \E qlen \in 1..MaxSegment, v \in {0, 1} :
          /\ Len(sess.stream[1]) + qlen <= MaxStream
          /\ LET hs == HiddenStates(cfg.n_layers, Len(sess.stream[1]), qlen, v)
             IN  /\ call' = Some([memory_prev |-> sess.mems,
                                  hidden_states |-> hs])
                 /\ ret' = Some(update_memory(cfg, sess.mems, hs))
                 /\ sess' = [sess EXCEPT !.stream =
                                [l \in DOMAIN hs |-> sess.stream[l] \o hs[l]]]
    /\ pc' = "updated"
    /\ UNCHANGED <<cfg, mono, chunk, saved>>

\* The caller keeps the new memory for the next segment
XlThread ==
    /\ pc = "updated"
    /\ Get(ret).status = "ok"
    /\ sess' = [sess EXCEPT !.mems = Get(ret).new_mems]
    /\ saved' = Get(ret).new_mems
    /\ call' = None
    /\ ret' = None
    /\ pc' = "idle"
    /\ UNCHANGED <<cfg, mono, chunk>>

\* The stream ends and another begins
XlRestart ==
    /\ pc = "idle"
    /\ sess.mems # None
    /\ sess' = NewStream(cfg.n_layers)
    /\ saved' = None
    /\ UNCHANGED <<cfg, mono, chunk, call, ret, pc>>

NextXl == XlUpdate \/ XlThread \/ XlRestart

SpecXl == InitXl /\ [][NextXl]_vars

\* The last n entries of a sequence, in order
LastN(rows, n) ==
    [k \in 1..Min({n, Len(rows)}) |-> rows[Len(rows) - Min({n, Len(rows)}) + k]]

\* The entries of the memory passed to the call in flight, per layer
PrevRows(l) ==
    IF Get(call).memory_prev = None THEN <<>>
    ELSE Get(Get(call).memory_prev)[l].rows

\* C25: after every update_memory call of a stream that began with no
\* memory, every layer's memory is, in order, the last
\* min(mem_len, positions seen so far) entries of the previous memory
\* followed by the new hidden states (which are the last entries of that
\* layer's stream); all layers have the same memory length, it is at most
\* mem_len, and it is at least the length of the memory passed in.
C25_MemoryIsRecentWindow ==
    pc = "updated" =>
        LET r == Get(ret)
            n == Min({cfg.mem_len, Len(sess.stream[1])})
        IN  /\ r.status = "ok"
            /\ DOMAIN Get(r.new_mems) = 1..cfg.n_layers
            /\ \A l \in 1..cfg.n_layers :
                  LET new == Get(r.new_mems)[l].rows
                  IN  /\ new = LastN(PrevRows(l) \o Get(call).hidden_states[l], n)
                      /\ new = LastN(sess.stream[l], n)
                      /\ Len(new) = Len(Get(r.new_mems)[1].rows)
                      /\ Len(new) <= cfg.mem_len
                      /\ Len(new) >= Len(PrevRows(l))

\* C25 witness: two layers with a full memory of two entries read one more
\* position; the oldest entry is dropped and the new one appended.
C25_Witness ==
    /\ pc = "updated"
    /\ cfg.n_layers = 2
    /\ cfg.mem_len = 2
    /\ Len(sess.stream[1]) = 4
    /\ Len(Get(call).hidden_states[2]) = 1
    /\ Len(PrevRows(2)) = 2
    /\ Get(Get(ret).new_mems)[2].rows
         = <<PrevRows(2)[2], Get(call).hidden_states[2][1]>>


=============================================================================
